---------------------------- MODULE Spec2Model ----------------------------
(***************************************************************************)
(* A model of the two utilities of the repository:                         *)
(*   - src/mapsexcel.py: the Google Maps scraper (its main program, the    *)
(*     interrupt handler and the extraction loop extract_all_results);     *)
(*   - src/zip.py: the directory archiver (should_exclude_file and the     *)
(*     walk of create_directory_zip).                                      *)
(* Strings are sequences of one-character strings, so that strip, lower,   *)
(* startswith, endswith and basename are computed and not assumed.         *)
(***************************************************************************)
EXTENDS Integers, Sequences, FiniteSets, TLC

(***************************************************************************)
(* Bounds of the model (not program constants).                            *)
(***************************************************************************)
\* The largest number of listings the results feed can ever hold.
MaxFeed == 3
\* How many driver calls of the feed count / scroll may fail transiently.
MaxErrs == 1
\* How many times the interrupt signal (SIGINT) is delivered in one run.
MaxSignals == 1

(***************************************************************************)
(* Program constants of src/mapsexcel.py.                                  *)
(***************************************************************************)
\* "if consecutive_failures > 3" (line 415)
FailureThreshold == 3
\* "if no_new_results_count > 3" (line 449)
NoGrowthThreshold == 3
\* the four entries of name_selectors (lines 169-174)
NumNameSelectors == 4

(***************************************************************************)
(* Strings.                                                                *)
(***************************************************************************)
\* Python's None for a field of the details dictionary (lines 151-162).
None == << "None" >>

\* Python truthiness of an optional string: neither None nor "".
Truthy(s) == s # None /\ s # << >>

RECURSIVE LStrip(_)
LStrip(s) == IF s # << >> /\ Head(s) = " " THEN LStrip(Tail(s)) ELSE s

RECURSIVE RStrip(_)
RStrip(s) ==
    IF s # << >> /\ s[Len(s)] = " " THEN RStrip(SubSeq(s, 1, Len(s) - 1)) ELSE s

\* str.strip(): the leading and trailing blanks are removed.
Strip(s) == RStrip(LStrip(s))

\* What the text of a heading element can be: empty, blank, or a name with
\* or without blanks around it.
RawTexts ==
    { << >>, << " " >>, << "a" >>, << " ", "a" >>, << "a", " " >> }

(***************************************************************************)
(* State of the scraper.                                                   *)
(***************************************************************************)
VARIABLES
    pc,                     \* the statement the main thread is at
    browser,                \* the webdriver session: "open" | "lost" | "closed"
    stop_extraction,        \* self.stop_extraction
    results,                \* self.results: sequence of records
    saves,                  \* every call of save_to_excel_safe: the records it was given
    loaded,                 \* listings the feed holds now
    cap,                    \* listings the feed can hold at most
    total_listings,         \* local of extract_all_results
    i,                      \* the for-loop index
    processed_indices,      \* local of extract_all_results
    consecutive_failures,   \* local of extract_all_results
    no_new_results_count,   \* local of extract_all_results
    sel,                    \* position in name_selectors
    name,                   \* details['name'] of the listing being parsed
    errs,                   \* transient driver errors so far
    signals,                \* interrupt signals delivered so far
    exitHow,                \* how the process ended
    visited,                \* history: indices whose visit was started
    sigLen,                 \* history: len(self.results) when the handler first ran, -1 before
    sigAt,                  \* history: pc at which the handler first ran
    ranAfter,               \* history: the program executed a step after the handler returned
    fatal,                  \* history: where the first session-lost error was raised
    afterFatal,             \* history: a visit or scroll was started after that error
    byOne,                  \* history: every count succeeded and every scroll grew the feed by one while it could
    loaded0                 \* history: listings the feed held when extraction started

mapsVars ==
    << pc, browser, stop_extraction, results, saves, loaded, cap, total_listings,
       i, processed_indices, consecutive_failures, no_new_results_count, sel,
       name, errs, signals, exitHow, visited, sigLen, sigAt, ranAfter, fatal,
       afterFatal, byOne, loaded0 >>

(***************************************************************************)
(* State of the archiver (src/zip.py).                                     *)
(***************************************************************************)
VARIABLES
    zpc,                    \* the statement create_directory_zip is at
    tree,                   \* the working directory: indices of the Candidates it holds
    exclude_hidden,         \* parameter of create_directory_zip
    output,                 \* where output_filename lies: "outside" | "new" | "existing"
    todo,                   \* os.walk: (root, dirs, files) tuples not yet yielded
    curDirs,                \* dirs of the current tuple not yet processed
    curFiles,               \* files of the current tuple not yet processed
    archive,                \* the entries written to the archive so far
    files_added,
    folders_added,
    files_skipped,
    tree0,                  \* history: the working directory before the run
    failedWrites            \* history: files whose write raised

zipVars ==
    << zpc, tree, exclude_hidden, output, todo, curDirs, curFiles, archive,
       files_added, folders_added, files_skipped, tree0, failedWrites >>

(***************************************************************************)
(* State of one call of should_exclude_file.                               *)
(***************************************************************************)
VARIABLES
    filepath,               \* the argument
    excluded                \* the value returned, "unset" before the call

exclVars == << filepath, excluded >>

(***************************************************************************)
(* The command line of the archive builder (src/zip.py, main).             *)
(***************************************************************************)
VARIABLES
    cpc,                    \* the statement main is at
    verbose,                \* args.verbose
    include_hidden,         \* args.include_hidden
    answered,               \* the prompt: "no" (not asked) | "line" | "eof"
    response,               \* the line typed at the prompt
    exit_code               \* the exit status, -1 while the process runs

cliVars == << cpc, verbose, include_hidden, answered, response, exit_code >>

(***************************************************************************)
(* The functions of src/mapsexcel.py checked on their own.                 *)
(***************************************************************************)
VARIABLES
    phone,                  \* the argument of clean_phone_number
    phone_out,              \* the value it returned
    phone_done              \* whether it has been called

phoneVars == << phone, phone_out, phone_done >>

VARIABLES
    ppc,                    \* the statement extract_listing_details_from_panel is at
    panel,                  \* what the detail panel shows: the sources present
    raising,                \* the lookups at which the driver raises an error
    details                 \* the keys of details that hold a value

panelVars == << ppc, panel, raising, details >>

parseVars == << phoneVars, panelVars >>

otherVars == << cliVars, parseVars >>

vars == << mapsVars, zipVars, exclVars, otherVars >>

CliIdle ==
    /\ cpc = "idle" /\ verbose = FALSE /\ include_hidden = FALSE
    /\ answered = "no" /\ response = << >> /\ exit_code = -1

PhoneIdle == phone = << >> /\ phone_out = << >> /\ phone_done = FALSE

PanelIdle == ppc = "idle" /\ panel = {} /\ raising = {} /\ details = {}

ParseIdle == PhoneIdle /\ PanelIdle

OtherIdle == CliIdle /\ ParseIdle

ErrorKinds == { "other", "session" }

\* The statements of extract_all_results.
ExtractPcs ==
    { "x_while", "x_for", "x_click", "x_panel", "x_rest", "x_failscroll",
      "x_endscroll" }

\* The statements run inside a bare "except:" (lines 90, 118, 182, 191, 226,
\* 236, 257, 266, 277, 288, 332): a SystemExit raised there is caught.
SwallowPcs ==
    { "m_open", "x_while", "x_panel", "x_rest", "x_failscroll", "x_endscroll" }


(***************************************************************************)
(* The scraper: initial state (after line 699, the handler is installed).  *)
(***************************************************************************)
ZipIdle ==
    /\ zpc = "idle" /\ tree = {} /\ exclude_hidden = TRUE /\ output = "outside"
    /\ todo = << >> /\ curDirs = << >> /\ curFiles = << >> /\ archive = {}
    /\ files_added = 0 /\ folders_added = 0 /\ files_skipped = 0
    /\ tree0 = {} /\ failedWrites = {}

ExclIdle == filepath = << >> /\ excluded = "unset"

MapsInit ==
    /\ pc = "m_open"
    /\ browser = "open"
    /\ stop_extraction = FALSE
    /\ results = << >>
    /\ saves = << >>
    /\ cap \in 0 .. MaxFeed
    /\ loaded \in 0 .. cap
    /\ total_listings = 0
    /\ i = 0
    /\ processed_indices = {}
    /\ consecutive_failures = 0
    /\ no_new_results_count = 0
    /\ sel = 1
    /\ name = None
    /\ errs = 0
    /\ signals = 0
    /\ exitHow = "running"
    /\ visited = {}
    /\ sigLen = -1
    /\ sigAt = "none"
    /\ ranAfter = FALSE
    /\ fatal = "none"
    /\ afterFatal = FALSE
    /\ byOne = TRUE
    /\ loaded0 = 0
    /\ ZipIdle
    /\ ExclIdle
    /\ OtherIdle

\* The locals of extract_all_results and of the parser are gone once the
\* function has returned or the process has exited, and the history of the
\* call ends with it.
LocalsDropped ==
    /\ total_listings' = 0
    /\ i' = 0
    /\ processed_indices' = {}
    /\ consecutive_failures' = 0
    /\ no_new_results_count' = 0
    /\ sel' = 1
    /\ name' = None
    /\ visited' = {}
    /\ fatal' = "none"
    /\ afterFatal' = FALSE
    /\ byOne' = TRUE
    /\ loaded0' = 0

\* Every step of the program records whether the handler had already run.
Ran == ranAfter' = (ranAfter \/ signals > 0)

\* A mutant of Retained: every parsed record is kept.
RetainedAlways(n) == TRUE

\* "if details['name']:" (line 396)
Retained(n) == Truthy(n)

\* A mutant of NoGrowth: a scroll that loads nothing is not counted.
NoGrowthNotCounted(n, grew) == IF grew THEN 0 ELSE n

\* lines 418-421 and 436-441: the no-growth counter after a scroll.
NoGrowth(n, grew) == IF grew THEN 0 ELSE n + 1

\* A mutant of Exhausted: the loop gives up after its first pass.
ExhaustedAtOnce(n) == TRUE

\* "if no_new_results_count > 3" (line 449)
Exhausted(n) == n > NoGrowthThreshold

\* A changed TooManyFailures: the scroll comes with the third failure.
TooManyFailuresAtThree(n) == n >= FailureThreshold

\* "if consecutive_failures > 3" (line 415)
TooManyFailures(n) == n > FailureThreshold

(***************************************************************************)
(* get_total_results_count (lines 326-333): the number of listings, or 0   *)
(* when a driver call raises (bare except).                                *)
(***************************************************************************)
GetTotalResultsCount(r) ==
    \/ /\ browser # "open"
       /\ r = 0
       /\ byOne' = FALSE
       /\ UNCHANGED errs
    \/ /\ browser = "open"
       /\ r = loaded
       /\ UNCHANGED << errs, byOne >>
    \/ /\ browser = "open"
       /\ errs < MaxErrs
       /\ r = 0
       /\ errs' = errs + 1
       /\ byOne' = FALSE

(***************************************************************************)
(* scroll_results_panel (lines 335-354): count, scroll to the bottom,      *)
(* count again; any exception gives False.  grew is the value returned.    *)
(* An error of kind "session" (the driver's message names the session or   *)
(* the connection) leaves the session lost: every later driver call raises.*)
(***************************************************************************)
ScrollResultsPanel(grew) ==
    \/ /\ browser # "open"
       /\ grew = FALSE
       /\ byOne' = FALSE
       /\ UNCHANGED << browser, loaded, errs, fatal >>
    \/ /\ browser = "open"
       /\ \E g \in 0 .. (cap - loaded) :
            /\ loaded' = loaded + g
            /\ grew = (g > 0)
            /\ byOne' = (byOne /\ g = (IF loaded < cap THEN 1 ELSE 0))
       /\ UNCHANGED << browser, errs, fatal >>
    \/ /\ browser = "open"
       /\ errs < MaxErrs
       /\ errs' = errs + 1
       /\ byOne' = FALSE
       /\ \/ \* before_scroll is 0: the first count failed
             /\ \E g \in 0 .. (cap - loaded) :
                  /\ loaded' = loaded + g
                  /\ grew = (loaded + g > 0)
             /\ UNCHANGED << browser, fatal >>
          \/ \* find_element or execute_script raised: caught at line 352
             /\ \E k \in ErrorKinds :
                  /\ fatal' = IF fatal = "none" /\ k = "session" THEN "scroll" ELSE fatal
                  /\ browser' = IF k = "session" THEN "lost" ELSE browser
             /\ grew = FALSE
             /\ UNCHANGED loaded
          \/ \* after_scroll is 0: the second count failed
             /\ \E g \in 0 .. (cap - loaded) : loaded' = loaded + g
             /\ grew = FALSE
             /\ UNCHANGED << browser, fatal >>


(***************************************************************************)
(* The main program, up to the call of extract_all_results.                *)
(***************************************************************************)
\* open_google_maps_and_wait (lines 76-124): True when the results feed is
\* detected, False otherwise (no feed, an input() at end of file, any
\* driver error; with the browser closed every driver call raises).
OpenGoogleMapsAndWait ==
    /\ pc = "m_open"
    /\ \E detected \in BOOLEAN :
         /\ browser # "open" => ~detected
         /\ pc' = IF detected THEN "x_header" ELSE "m_finally"
    /\ Ran
    /\ UNCHANGED << browser, stop_extraction, results, saves, loaded, cap,
                    total_listings, i, processed_indices, consecutive_failures,
                    no_new_results_count, sel, name, errs, signals, exitHow,
                    visited, sigLen, sigAt, fatal, afterFatal, byOne, loaded0 >>
    /\ UNCHANGED << zipVars, exclVars, otherVars >>

\* extract_all_results, lines 358-367: the locals and the banner.  The
\* prints are outside the try of line 369: a failing print (closed or
\* non-UTF-8 stdout) reaches the except of the main program (line 755).
ExtractHeader ==
    /\ pc = "x_header"
    /\ processed_indices' = {}
    /\ consecutive_failures' = 0
    /\ no_new_results_count' = 0
    /\ loaded0' = loaded
    /\ \/ pc' = "x_while"
       \/ pc' = "m_except"
    /\ Ran
    /\ UNCHANGED << browser, stop_extraction, results, saves, loaded, cap,
                    total_listings, i, sel, name, errs, signals, exitHow,
                    visited, sigLen, sigAt, fatal, afterFatal, byOne >>
    /\ UNCHANGED << zipVars, exclVars, otherVars >>

(***************************************************************************)
(* extract_all_results, lines 369-462.                                     *)
(***************************************************************************)
\* lines 370-378: the while test, the count, the zero-items exit.
LoopTop ==
    /\ pc = "x_while"
    /\ IF stop_extraction
       THEN /\ pc' = "x_return"
            /\ UNCHANGED << total_listings, i, errs, byOne >>
       ELSE \E r \in 0 .. MaxFeed :
              /\ GetTotalResultsCount(r)
              /\ IF r = 0
                 THEN pc' = "x_return" /\ UNCHANGED << total_listings, i >>
                 ELSE pc' = "x_for" /\ total_listings' = r /\ i' = 0
    /\ Ran
    /\ UNCHANGED << browser, stop_extraction, results, saves, loaded, cap,
                    processed_indices, consecutive_failures,
                    no_new_results_count, sel, name, signals, exitHow, visited,
                    sigLen, sigAt, fatal, afterFatal, loaded0 >>
    /\ UNCHANGED << zipVars, exclVars, otherVars >>

\* A changed Unprocessed: the processed test of line 385 is dropped.
UnprocessedOrNot == i .. (total_listings - 1)

\* lines 379-388 and 429-431: the for statement with its stop test and its
\* processed test, up to the next index to visit; when the for loop ends
\* (exhausted, or left by the break of line 383), the stop test of line 430.
Unprocessed == { j \in i .. (total_listings - 1) : j \notin processed_indices }

ForNext ==
    /\ pc = "x_for"
    /\ IF stop_extraction
       THEN /\ pc' = "x_return"
            /\ UNCHANGED << i, visited, afterFatal >>
       ELSE IF Unprocessed = {}
       THEN /\ pc' = "x_endscroll"
            /\ UNCHANGED << i, visited, afterFatal >>
       ELSE /\ pc' = "x_click"
            /\ i' = CHOOSE j \in Unprocessed : \A k \in Unprocessed : j <= k
            /\ visited' = visited \cup { i' }
            /\ afterFatal' = (afterFatal \/ fatal # "none")
    /\ Ran
    /\ UNCHANGED << browser, stop_extraction, results, saves, loaded, cap,
                    total_listings, processed_indices, consecutive_failures,
                    no_new_results_count, sel, name, errs, signals, exitHow,
                    sigLen, sigAt, fatal, byOne, loaded0 >>
    /\ UNCHANGED << zipVars, exclVars, otherVars >>

\* What follows a visit that added no record (lines 402, 405, 415): the
\* failure counter grows, and past the threshold a scroll comes next.
VisitFailed ==
    /\ consecutive_failures' = consecutive_failures + 1
    /\ IF TooManyFailures(consecutive_failures + 1)
       THEN pc' = "x_failscroll" /\ UNCHANGED i
       ELSE pc' = "x_for" /\ i' = i + 1

\* click_listing_by_index (lines 298-324): True after the click, False when
\* the index is beyond the listings or when anything raises (line 322).
ClickListingByIndex ==
    /\ pc = "x_click"
    /\ \/ /\ browser = "open"
          /\ i < loaded
          /\ pc' = "x_panel"
          /\ sel' = 1
          /\ name' = None
          /\ UNCHANGED << i, consecutive_failures, fatal >>
          /\ UNCHANGED browser
       \/ /\ \E k \in ErrorKinds :
               IF browser = "open" /\ k = "session"
               THEN /\ browser' = "lost"
                    /\ fatal' = IF fatal = "none" THEN "visit" ELSE fatal
               ELSE UNCHANGED << browser, fatal >>
          /\ VisitFailed
          /\ UNCHANGED << sel, name >>
    /\ Ran
    /\ UNCHANGED << stop_extraction, results, saves, loaded, cap,
                    total_listings, processed_indices, no_new_results_count,
                    errs, signals, exitHow, visited, sigLen, sigAt, afterFatal,
                    byOne, loaded0 >>
    /\ UNCHANGED << zipVars, exclVars, otherVars >>

\* extract_listing_details_from_panel, lines 176-183: one name selector.
\* find_element raises, or gives an element whose text is empty, or gives a
\* text, which is stripped and ends the loop.
PanelName ==
    /\ pc = "x_panel"
    /\ \/ /\ IF sel < NumNameSelectors
            THEN sel' = sel + 1 /\ UNCHANGED pc
            ELSE sel' = 1 /\ pc' = "x_rest"
          /\ UNCHANGED name
       \/ /\ browser = "open"
          /\ \E t \in RawTexts \ { << >> } :
               name' = Strip(t)
          /\ sel' = 1
          /\ pc' = "x_rest"
    /\ Ran
    /\ UNCHANGED << browser, stop_extraction, results, saves, loaded, cap,
                    total_listings, i, processed_indices, consecutive_failures,
                    no_new_results_count, errs, signals, exitHow, visited,
                    sigLen, sigAt, fatal, afterFatal, byOne, loaded0 >>
    /\ UNCHANGED << zipVars, exclVars, otherVars >>

\* extract_listing_details_from_panel, lines 185-296 (the other fields, each
\* in its own try), then lines 396-403 of the loop: the record is appended
\* when its name is truthy.
PanelRest ==
    /\ pc = "x_rest"
    /\ IF Retained(name)
       THEN /\ results' = Append(results, [ name |-> name, idx |-> i ])
            /\ processed_indices' = processed_indices \cup { i }
            /\ consecutive_failures' = 0
            /\ pc' = "x_for"
            /\ i' = i + 1
       ELSE /\ VisitFailed
            /\ UNCHANGED << results, processed_indices >>
    /\ name' = None
    /\ Ran
    /\ UNCHANGED << browser, stop_extraction, saves, loaded, cap,
                    total_listings, no_new_results_count, sel, errs, signals,
                    exitHow, visited, sigLen, sigAt, fatal, afterFatal, byOne,
                    loaded0 >>
    /\ UNCHANGED << zipVars, exclVars, otherVars >>

\* lines 415-427: the scroll after too many failures.  scroll_results_panel
\* never raises, so the handler of line 423 is never entered.
FailScroll ==
    /\ pc = "x_failscroll"
    /\ afterFatal' = (afterFatal \/ fatal # "none")
    /\ \E grew \in BOOLEAN :
         /\ ScrollResultsPanel(grew)
         /\ no_new_results_count' = NoGrowth(no_new_results_count, grew)
    /\ consecutive_failures' = 0
    /\ i' = i + 1
    /\ pc' = "x_for"
    /\ Ran
    /\ UNCHANGED << stop_extraction, results, saves, cap,
                    total_listings, processed_indices, sel, name, signals,
                    exitHow, visited, sigLen, sigAt, loaded0 >>
    /\ UNCHANGED << zipVars, exclVars, otherVars >>

\* lines 433-455: the scroll at the end of a pass and the no-growth exit.
EndScroll ==
    /\ pc = "x_endscroll"
    /\ afterFatal' = (afterFatal \/ fatal # "none")
    /\ \E grew \in BOOLEAN :
         /\ ScrollResultsPanel(grew)
         /\ no_new_results_count' = NoGrowth(no_new_results_count, grew)
         /\ pc' = IF Exhausted(NoGrowth(no_new_results_count, grew))
                  THEN "x_return" ELSE "x_while"
    /\ Ran
    /\ UNCHANGED << stop_extraction, results, saves, cap,
                    total_listings, i, processed_indices, consecutive_failures,
                    sel, name, signals, exitHow, visited, sigLen, sigAt,
                    loaded0 >>
    /\ UNCHANGED << zipVars, exclVars, otherVars >>

\* line 462: return self.results.
ExtractReturn ==
    /\ pc = "x_return"
    /\ pc' = "m_save"
    /\ LocalsDropped
    /\ Ran
    /\ UNCHANGED << browser, stop_extraction, results, saves, loaded, cap,
                    errs, signals, exitHow, sigLen, sigAt >>
    /\ UNCHANGED << zipVars, exclVars, otherVars >>

(***************************************************************************)
(* The main program after extract_all_results (lines 711-780).             *)
(***************************************************************************)
\* lines 711-721: save_to_excel(filename), that is save_to_excel_safe
\* (lines 464-497): False without records or when writing fails.
MainSave ==
    /\ pc = "m_save"
    /\ saves' = Append(saves, results)
    /\ \E written \in BOOLEAN :
         /\ results = << >> => ~written
         /\ pc' = IF written THEN "m_report" ELSE "m_finally"
    /\ Ran
    /\ UNCHANGED << browser, stop_extraction, results, loaded, cap,
                    total_listings, i, processed_indices, consecutive_failures,
                    no_new_results_count, sel, name, errs, signals, exitHow,
                    visited, sigLen, sigAt, fatal, afterFatal, byOne, loaded0 >>
    /\ UNCHANGED << zipVars, exclVars, otherVars >>

\* lines 722-749: the summary is printed; a failing print raises.
MainReport ==
    /\ pc = "m_report"
    /\ \/ pc' = "m_finally"
       \/ pc' = "m_except"
    /\ Ran
    /\ UNCHANGED << browser, stop_extraction, results, saves, loaded, cap,
                    total_listings, i, processed_indices, consecutive_failures,
                    no_new_results_count, sel, name, errs, signals, exitHow,
                    visited, sigLen, sigAt, fatal, afterFatal, byOne, loaded0 >>
    /\ UNCHANGED << zipVars, exclVars, otherVars >>

\* lines 755-764: the emergency save.
MainExcept ==
    /\ pc = "m_except"
    /\ saves' = IF results # << >> THEN Append(saves, results) ELSE saves
    /\ pc' = "m_finally"
    /\ Ran
    /\ UNCHANGED << browser, stop_extraction, results, loaded, cap,
                    total_listings, i, processed_indices, consecutive_failures,
                    no_new_results_count, sel, name, errs, signals, exitHow,
                    visited, sigLen, sigAt, fatal, afterFatal, byOne, loaded0 >>
    /\ UNCHANGED << zipVars, exclVars, otherVars >>

\* lines 766-768: the finally block closes nothing once the flag is set.
MainFinally ==
    /\ pc = "m_finally"
    /\ IF stop_extraction
       THEN pc' = "exited" /\ exitHow' = "end"
       ELSE pc' = "m_prompt" /\ UNCHANGED exitHow
    /\ Ran
    /\ UNCHANGED << browser, stop_extraction, results, saves, loaded, cap,
                    total_listings, i, processed_indices, consecutive_failures,
                    no_new_results_count, sel, name, errs, signals, visited,
                    sigLen, sigAt, fatal, afterFatal, byOne, loaded0 >>
    /\ UNCHANGED << zipVars, exclVars, otherVars >>

\* line 777: input() raises EOFError when standard input is at end of file
\* (Ctrl+D, a closed or redirected stdin); the close of line 778 is skipped.
\* lines 777-780: the prompt, then close() (close_browser_safe, 680-691).
MainPrompt ==
    /\ pc = "m_prompt"
    /\ \/ \* ENTER
          /\ exitHow' = "end"
          /\ browser' = "closed"
       \/ \* end of file
          /\ exitHow' = "eoferror"
          /\ UNCHANGED browser
    /\ pc' = "exited"
    /\ Ran
    /\ UNCHANGED << stop_extraction, results, saves, loaded, cap,
                    total_listings, i, processed_indices, consecutive_failures,
                    no_new_results_count, sel, name, errs, signals, visited,
                    sigLen, sigAt, fatal, afterFatal, byOne, loaded0 >>
    /\ UNCHANGED << zipVars, exclVars, otherVars >>

(***************************************************************************)
(* signal_handler (lines 50-74), run by the interpreter between two        *)
(* instructions of the main thread: the flag, the save, the close, then    *)
(* sys.exit(0), which raises SystemExit at the interrupted statement.      *)
(* "except Exception" lets SystemExit through; a bare "except:" catches    *)
(* it, and the interrupted function carries on.                            *)
(***************************************************************************)
SignalHandler ==
    /\ pc # "exited"
    /\ signals < MaxSignals
    /\ signals' = signals + 1
    /\ stop_extraction' = TRUE
    /\ saves' = IF results # << >> THEN Append(saves, results) ELSE saves
    /\ browser' = "closed"
    /\ sigLen' = IF sigLen = -1 THEN Len(results) ELSE sigLen
    /\ sigAt' = IF sigAt = "none" THEN pc ELSE sigAt
    /\ \/ \* SystemExit leaves the program: the finally block of line 766
          \* skips the close, the process exits with status 0
          /\ pc' = "exited"
          /\ exitHow' = "sysexit"
          /\ LocalsDropped
       \/ \* SystemExit is caught by a bare except
          /\ pc \in SwallowPcs
          /\ UNCHANGED << pc, exitHow, total_listings, i, processed_indices,
                          consecutive_failures, no_new_results_count, sel, name,
                          visited, fatal, afterFatal, byOne, loaded0 >>
    /\ UNCHANGED << results, loaded, cap, errs, ranAfter >>
    /\ UNCHANGED << zipVars, exclVars, otherVars >>

ExtractStep ==
    \/ LoopTop
    \/ ForNext
    \/ ClickListingByIndex
    \/ PanelName
    \/ PanelRest
    \/ FailScroll
    \/ EndScroll

MapsNext ==
    \/ OpenGoogleMapsAndWait
    \/ ExtractHeader
    \/ ExtractStep
    \/ ExtractReturn
    \/ MainSave
    \/ MainReport
    \/ MainExcept
    \/ MainFinally
    \/ MainPrompt
    \/ SignalHandler

\* The scraper.
Spec == MapsInit /\ [][MapsNext]_vars

\* The scraper, whose main thread keeps running while it is inside the
\* extraction loop (the loop never waits for the user).
LiveSpec == MapsInit /\ [][MapsNext]_vars /\ WF_vars(ExtractStep)

(***************************************************************************)
(* src/zip.py: strings and paths.                                          *)
(***************************************************************************)
\* str.startswith
StartsWith(s, p) == Len(s) >= Len(p) /\ SubSeq(s, 1, Len(p)) = p

\* str.endswith
EndsWith(s, p) ==
    Len(s) >= Len(p) /\ SubSeq(s, Len(s) - Len(p) + 1, Len(s)) = p

\* str.lower on one character (the letters the model writes in capitals).
LowerChar(c) ==
    CASE c = "Z" -> "z"
      [] c = "I" -> "i"
      [] c = "P" -> "p"
      [] c = "T" -> "t"
      [] c = "M" -> "m"
      [] c = "Y" -> "y"
      [] c = "E" -> "e"
      [] c = "S" -> "s"
      [] OTHER -> c

\* str.lower
Lower(s) == [ k \in 1 .. Len(s) |-> LowerChar(s[k]) ]

\* os.path.basename (posix): what follows the last "/".
RECURSIVE Basename(_)
Basename(path) ==
    IF path = << >> THEN << >>
    ELSE IF path[Len(path)] = "/" THEN << >>
    ELSE Append(Basename(SubSeq(path, 1, Len(path) - 1)), path[Len(path)])

\* "filename = os.path.basename(filepath)" (line 21)
FileNameOf(path) == Basename(path)

DotZip == << ".", "z", "i", "p" >>

\* temp_extensions (line 32)
temp_extensions ==
    { << ".", "t", "m", "p" >>,
      << ".", "t", "e", "m", "p" >>,
      << ".", "s", "w", "p" >>,
      << ".", "b", "a", "k" >>,
      << "~" >> }

\* A mutant of should_exclude_file: the zip test without lower().
should_exclude_file_case_sensitive(path) ==
    LET filename == FileNameOf(path)
    IN  \/ EndsWith(filename, DotZip)
        \/ StartsWith(filename, << "." >>)
        \/ \E ext \in temp_extensions : EndsWith(filename, ext)

\* should_exclude_file (lines 19-36)
should_exclude_file(path) ==
    LET filename == FileNameOf(path)
    IN  IF EndsWith(Lower(filename), DotZip) THEN TRUE
        ELSE IF StartsWith(filename, << "." >>) THEN TRUE
        ELSE IF \E ext \in temp_extensions : EndsWith(filename, ext) THEN TRUE
        ELSE FALSE

BoolStr(b) == IF b THEN "True" ELSE "False"

(***************************************************************************)
(* One call of should_exclude_file on a path drawn from PathInputs.        *)
(***************************************************************************)
\* The longest stem of a generated file name.
MaxStemLen == 2

StemChars == { "a", ".", "~" }

RECURSIVE SeqsUpTo(_, _)
SeqsUpTo(chars, n) ==
    IF n = 0 THEN { << >> }
    ELSE LET shorter == SeqsUpTo(chars, n - 1)
         IN  shorter \cup { Append(t, c) : t \in shorter, c \in chars }

Stems == SeqsUpTo(StemChars, MaxStemLen)

DirPrefixes ==
    { << >>,
      << ".", "/" >>,
      << "d", "a", "t", "a", "/" >>,
      << ".", "g", "i", "t", "/" >>,
      << "a", ".", "z", "i", "p", "/" >> }

NameEndings ==
    { << >>,
      << ".", "z", "i", "p" >>,
      << ".", "Z", "I", "P" >>,
      << ".", "Z", "i", "p" >>,
      << ".", "z", "i", "p", "x" >>,
      << ".", "t", "m", "p" >>,
      << ".", "t", "e", "m", "p" >>,
      << ".", "T", "M", "P" >>,
      << ".", "s", "w", "p" >>,
      << ".", "b", "a", "k" >>,
      << "~" >>,
      << ".", "c", "s", "v" >>,
      << ".", "t", "m", "p", ".", "t", "x", "t" >>,
      << "z", "i", "p" >> }

\* The names of the specification's examples.
Ex_backup == << "b", "a", "c", "k", "u", "p", "_", "2", "0", "2", "3", "0", "1", "0", "1", ".", "z", "i", "p" >>
Ex_env == << ".", "e", "n", "v" >>
Ex_notes == << "n", "o", "t", "e", "s", ".", "t", "m", "p" >>
Ex_report == << "r", "e", "p", "o", "r", "t", ".", "x", "l", "s", "x" >>
Ex_data == << "d", "a", "t", "a", "/", "f", "i", "l", "e", ".", "c", "s", "v" >>

PathInputs ==
    { d \o t \o e : d \in DirPrefixes, t \in Stems, e \in NameEndings }
        \cup { Ex_backup, Ex_env, Ex_notes, Ex_report, Ex_data }

ScraperIdle ==
    /\ pc = "idle" /\ browser = "closed" /\ stop_extraction = FALSE
    /\ results = << >> /\ saves = << >> /\ loaded = 0 /\ cap = 0
    /\ total_listings = 0 /\ i = 0 /\ processed_indices = {}
    /\ consecutive_failures = 0 /\ no_new_results_count = 0 /\ sel = 1
    /\ name = None /\ errs = 0 /\ signals = 0 /\ exitHow = "running"
    /\ visited = {} /\ sigLen = -1 /\ sigAt = "none" /\ ranAfter = FALSE
    /\ fatal = "none" /\ afterFatal = FALSE /\ byOne = TRUE /\ loaded0 = 0

ExclInit ==
    /\ filepath \in PathInputs
    /\ excluded = "unset"
    /\ ScraperIdle
    /\ ZipIdle
    /\ OtherIdle

CallShouldExcludeFile ==
    /\ excluded = "unset"
    /\ excluded' = BoolStr(should_exclude_file(filepath))
    /\ UNCHANGED filepath
    /\ UNCHANGED << mapsVars, zipVars, otherVars >>

\* should_exclude_file, called once on any path.
ExclSpec == ExclInit /\ [][CallShouldExcludeFile]_vars

(***************************************************************************)
(* create_directory_zip (lines 38-127) on a working directory.             *)
(***************************************************************************)
\* The largest number of entries of the working directory before the run.
MaxTreeSize == 4

\* The entries a working directory can hold: four directories (one hidden,
\* with a directory below it, one named like an archive), eight files, and
\* last the output archive.
Candidates ==
    << 
       [ path |-> << << "d" >> >>, kind |-> "dir" ],   \* 1: d
       [ path |-> << << ".", "g" >> >>, kind |-> "dir" ],   \* 2: .g
       [ path |-> << << ".", "g" >>, << "o" >> >>, kind |-> "dir" ],   \* 3: .g/o
       [ path |-> << << "z", ".", "z", "i", "p" >> >>, kind |-> "dir" ],   \* 4: z.zip
       [ path |-> << << "a", ".", "c" >> >>, kind |-> "file" ],   \* 5: a.c
       [ path |-> << << "b", ".", "z", "i", "p" >> >>, kind |-> "file" ],   \* 6: b.zip
       [ path |-> << << ".", "e" >> >>, kind |-> "file" ],   \* 7: .e
       [ path |-> << << "n", ".", "t", "m", "p" >> >>, kind |-> "file" ],   \* 8: n.tmp
       [ path |-> << << "d" >>, << "a", ".", "c" >> >>, kind |-> "file" ],   \* 9: d/a.c
       [ path |-> << << "d" >>, << "B", ".", "Z", "I", "P" >> >>, kind |-> "file" ],   \* 10: d/B.ZIP
       [ path |-> << << ".", "g" >>, << "c" >> >>, kind |-> "file" ],   \* 11: .g/c
       [ path |-> << << ".", "g" >>, << "o" >>, << "a", ".", "c" >> >>, kind |-> "file" ],   \* 12: .g/o/a.c
       [ path |-> << << "o", ".", "z", "i", "p" >> >>, kind |-> "file" ]   \* 13: o.zip
    >>

\* The output archive, when output_filename names a new file of the working
\* directory (it always ends in ".zip", lines 48-50).
OutputEntry == Len(Candidates)

\* An existing archive of the working directory that -o can name.
ExistingArchive == CHOOSE k \in 1 .. Len(Candidates) :
    Candidates[k].path = << << "b", ".", "z", "i", "p" >> >>

InitialEntries == 1 .. (Len(Candidates) - 1)

PathOf(k) == Candidates[k].path

NameOf(k) == PathOf(k)[Len(PathOf(k))]

ParentOf(k) == SubSeq(PathOf(k), 1, Len(PathOf(k)) - 1)

IsDir(k) == Candidates[k].kind = "dir"

IsFile(k) == Candidates[k].kind = "file"

\* A working directory: every entry lies in a directory of the tree.
WellFormed(t) ==
    \A k \in t :
        \/ ParentOf(k) = << >>
        \/ \E d \in t : IsDir(d) /\ PathOf(d) = ParentOf(k)

Trees ==
    { t \in SUBSET InitialEntries : Cardinality(t) <= MaxTreeSize /\ WellFormed(t) }

\* The entries of t, in the order of Candidates.
RECURSIVE InOrder(_, _)
InOrder(t, k) ==
    IF k > Len(Candidates) THEN << >>
    ELSE (IF k \in t THEN << k >> ELSE << >>) \o InOrder(t, k + 1)

\* os.walk: the (dirs, files) of one directory.
DirsIn(t, root) == InOrder({ k \in t : IsDir(k) /\ ParentOf(k) = root }, 1)

FilesIn(t, root) == InOrder({ k \in t : IsFile(k) /\ ParentOf(k) = root }, 1)

\* os.path.join(root, name) from '.': "./" and the components joined by "/".
RECURSIVE JoinPath(_)
JoinPath(comps) ==
    IF comps = << >> THEN << "." >>
    ELSE JoinPath(SubSeq(comps, 1, Len(comps) - 1)) \o << "/" >> \o comps[Len(comps)]

FilePath(k) == JoinPath(PathOf(k))

ZipInit ==
    /\ zpc = "z_open"
    /\ tree \in Trees
    /\ tree0 = tree
    /\ exclude_hidden \in BOOLEAN
    /\ output \in { "outside", "new", "existing" }
    /\ output = "existing" => ExistingArchive \in tree
    /\ todo = << >>
    /\ curDirs = << >>
    /\ curFiles = << >>
    /\ archive = {}
    /\ files_added = 0
    /\ folders_added = 0
    /\ files_skipped = 0
    /\ failedWrites = {}
    /\ ScraperIdle
    /\ ExclIdle
    /\ OtherIdle

\* lines 59-60: zipfile.ZipFile(output_filename, 'w') creates (or empties)
\* the archive file before the walk starts; when it raises, the except of
\* line 112 returns False.
OpenArchive ==
    /\ zpc = "z_open"
    /\ \/ /\ zpc' = "z_walk"
          /\ tree' = IF output = "new" THEN tree \cup { OutputEntry } ELSE tree
          /\ todo' = << << >> >>
       \/ /\ zpc' = "z_failed"
          /\ UNCHANGED << tree, todo >>
    /\ UNCHANGED << exclude_hidden, output, curDirs, curFiles, archive,
                    files_added, folders_added, files_skipped, tree0,
                    failedWrites >>
    /\ UNCHANGED << mapsVars, exclVars, otherVars >>

\* line 63: os.walk goes down into every directory it listed (the loop of
\* lines 66-79 skips directories, it never removes them from dirs).
Descend(dirs) == [ k \in 1 .. Len(dirs) |-> PathOf(dirs[k]) ]

\* line 63: the next (root, dirs, files) of os.walk('.'), top-down; after
\* the last one, lines 116-127 report the counts and return True.
WalkNext ==
    /\ zpc = "z_walk"
    /\ curDirs = << >>
    /\ curFiles = << >>
    /\ IF todo = << >>
       THEN /\ zpc' = "z_done"
            /\ UNCHANGED << todo, curDirs, curFiles >>
       ELSE /\ curDirs' = DirsIn(tree, Head(todo))
            /\ curFiles' = FilesIn(tree, Head(todo))
            /\ todo' = Descend(DirsIn(tree, Head(todo))) \o Tail(todo)
            /\ UNCHANGED zpc
    /\ UNCHANGED << tree, exclude_hidden, output, archive, files_added,
                    folders_added, files_skipped, tree0, failedWrites >>
    /\ UNCHANGED << mapsVars, exclVars, otherVars >>

\* lines 66-79: one directory of dirs.  zipf.write(dir_path) is outside any
\* inner try: when it raises, the except of line 112 returns False.
ProcessDir ==
    /\ zpc = "z_walk"
    /\ curDirs # << >>
    /\ curDirs' = Tail(curDirs)
    /\ IF exclude_hidden /\ StartsWith(NameOf(Head(curDirs)), << "." >>)
       THEN UNCHANGED << zpc, archive, folders_added >>
       ELSE \/ /\ archive' = archive \cup { Head(curDirs) }
               /\ folders_added' = folders_added + 1
               /\ UNCHANGED zpc
            \/ /\ zpc' = "z_failed"
               /\ UNCHANGED << archive, folders_added >>
    /\ UNCHANGED << tree, exclude_hidden, output, todo, curFiles, files_added,
                    files_skipped, tree0, failedWrites >>
    /\ UNCHANGED << mapsVars, exclVars, otherVars >>

\* A changed AfterFileWarning: a file that cannot be written ends the run.
AfterFileWarningAborts == "z_failed"

\* lines 109-110: the except of the inner try prints a warning, and the for
\* loop of line 82 goes on.
AfterFileWarning == "z_walk"

\* lines 82-110: one file of files.  A write that raises is a warning.
ProcessFile ==
    /\ zpc = "z_walk"
    /\ curDirs = << >>
    /\ curFiles # << >>
    /\ curFiles' = Tail(curFiles)
    /\ IF should_exclude_file(FilePath(Head(curFiles)))
       THEN /\ files_skipped' = files_skipped + 1
            /\ UNCHANGED << zpc, archive, files_added, failedWrites >>
       ELSE IF exclude_hidden /\ StartsWith(NameOf(Head(curFiles)), << "." >>)
       THEN /\ files_skipped' = files_skipped + 1
            /\ UNCHANGED << zpc, archive, files_added, failedWrites >>
       ELSE \/ /\ archive' = archive \cup { Head(curFiles) }
               /\ files_added' = files_added + 1
               /\ UNCHANGED << zpc, files_skipped, failedWrites >>
            \/ /\ failedWrites' = failedWrites \cup { Head(curFiles) }
               /\ zpc' = AfterFileWarning
               /\ UNCHANGED << archive, files_added, files_skipped >>
    /\ UNCHANGED << tree, exclude_hidden, output, todo, curDirs,
                    folders_added, tree0 >>
    /\ UNCHANGED << mapsVars, exclVars, otherVars >>

ZipNext ==
    \/ OpenArchive
    \/ WalkNext
    \/ ProcessDir
    \/ ProcessFile

\* The archiver.
ZipSpec == ZipInit /\ [][ZipNext]_vars

(***************************************************************************)
(* Properties of the scraper.                                              *)
(***************************************************************************)
\* The listing indices that contributed a record.
RecordedIndices == { results[k].idx : k \in 1 .. Len(results) }

\* C1: whatever visits (successful or failed), scrolls and stop requests
\* have happened, every record of the accumulated result list has a
\* non-empty name (neither None nor the empty string).
C1_EveryRecordHasName ==
    \A k \in 1 .. Len(results) :
        results[k].name # None /\ results[k].name # << >>

\* C1, its case: the loop has returned after a stop request, with records
\* kept and with a visited listing that gave none.
C1_Witness ==
    /\ pc = "x_return"
    /\ stop_extraction
    /\ Len(results) >= 1
    /\ visited \ RecordedIndices # {}

\* C2: once inside the extraction loop the program leaves it again, for
\* every growth of the feed up to its capacity, every pattern of listing
\* successes and failures and finitely many transient driver errors.
C2_LoopTerminates == (pc \in ExtractPcs) ~> (pc \notin ExtractPcs)

\* C2, its case: the loop has ended through the no-growth threshold.
C2_Witness ==
    /\ pc = "x_return"
    /\ ~stop_extraction
    /\ no_new_results_count > NoGrowthThreshold
    /\ cap = MaxFeed
    /\ loaded0 < cap
    /\ loaded = cap

\* The premise of C3: no interrupt, every count succeeded, and every scroll
\* loaded exactly one more listing while the feed held fewer than cap.
GrowsByOne == byOne /\ signals = 0

C4_OneSaveThenExit ==
    (pc = "exited" /\ sigLen >= 1 /\ sigAt \in ExtractPcs)
        => /\ Len(saves) = 1
           /\ saves[1] = SubSeq(results, 1, sigLen)
           /\ Len(results) = sigLen
           /\ browser = "closed"
           /\ ~ranAfter

\* C5: whenever the process has terminated, the browser session has been
\* closed.
C5_BrowserClosedAtExit == pc = "exited" => browser = "closed"

\* C6: after a listing visit has failed with a session-lost error, no
\* further listing visit and no further scroll is started.
C6_NothingAfterLostVisit == fatal = "visit" => ~afterFatal

\* C7: after a scroll has raised a session-lost error, the loop is left:
\* no further listing visit and no further scroll is started.
C7_NothingAfterLostScroll == fatal = "scroll" => ~afterFatal

(***************************************************************************)
(* Properties of should_exclude_file.                                      *)
(***************************************************************************)
\* The components of a path: what lies between its "/".
RECURSIVE SplitPath(_)
SplitPath(path) ==
    IF \A k \in 1 .. Len(path) : path[k] # "/" THEN << path >>
    ELSE LET k == CHOOSE j \in 1 .. Len(path) :
                      path[j] = "/" /\ \A m \in 1 .. (j - 1) : path[m] # "/"
         IN  << SubSeq(path, 1, k - 1) >> \o SplitPath(SubSeq(path, k + 1, Len(path)))

\* The ends of a string.
Suffixes(w) == { SubSeq(w, k, Len(w)) : k \in 1 .. (Len(w) + 1) }

\* The exclusion rule as the specification states it, on the base name.
ExcludedByRule(path) ==
    LET parts == SplitPath(path)
        base == parts[Len(parts)]
    IN  \/ \E w \in Suffixes(base) : Lower(w) = DotZip
        \/ (base # << >> /\ base[1] = ".")
        \/ Suffixes(base) \cap temp_extensions # {}

\* C8: should_exclude_file returns true exactly when the base name ends with
\* ".zip" in any case, or starts with ".", or ends with .tmp, .temp, .swp,
\* .bak or ~; the three excluded and the two included examples come out so.
C8_ExcludedExactlyByRule ==
    excluded # "unset" =>
        /\ excluded = BoolStr(ExcludedByRule(filepath))
        /\ filepath \in { Ex_backup, Ex_env, Ex_notes } => excluded = "True"
        /\ filepath \in { Ex_report, Ex_data } => excluded = "False"

\* C8, its case: a name in capitals ending in .ZIP below a directory has
\* been judged.
C8_Witness ==
    /\ excluded = "True"
    /\ filepath = << "d", "a", "t", "a", "/", "a", ".", "Z", "I", "P" >>


(***************************************************************************)
(* Properties of create_directory_zip.                                     *)
(***************************************************************************)
\* The entry lies somewhere below a directory whose name starts with ".".
BelowHidden(k) ==
    \E n \in 1 .. (Len(PathOf(k)) - 1) : StartsWith(PathOf(k)[n], << "." >>)

\* C9: with hidden-exclusion enabled a hidden directory is excluded as a
\* whole subtree: the walk does not descend into it and no file or folder
\* located anywhere below it is written to the archive.
C9_HiddenSubtreeExcluded ==
    exclude_hidden =>
        /\ \A k \in archive : ~BelowHidden(k)
        /\ \A n \in 1 .. Len(todo) :
               \A m \in 1 .. Len(todo[n]) : ~StartsWith(todo[n][m], << "." >>)

\* The files of the working directory before the run, and those of them the
\* exclusion policy excludes.
FilesOfTree == { k \in tree0 : IsFile(k) }

ExcludedFilesOfTree == { k \in FilesOfTree : should_exclude_file(FilePath(k)) }

\* C10: for a tree of F files of which Z are excluded by the exclusion
\* policy, with every write succeeding, the run reports
\* files_added = F - Z and files_skipped = Z.
C10_CountsMatchTree ==
    (zpc = "z_done" /\ failedWrites = {}) =>
        /\ files_added = Cardinality(FilesOfTree) - Cardinality(ExcludedFilesOfTree)
        /\ files_skipped = Cardinality(ExcludedFilesOfTree)

\* C11: no entry written to the archive, file or directory, has a base name
\* ending in ".zip".
C11_NoZipNamedEntry ==
    \A k \in archive : ~EndsWith(Lower(NameOf(k)), DotZip)

\* The entries of the working directory that pass the tests of lines 70, 86
\* and 96.
EligibleEntries ==
    { k \in tree0 :
        /\ ~(exclude_hidden /\ StartsWith(NameOf(k), << "." >>))
        /\ IsFile(k) => ~should_exclude_file(FilePath(k)) }

\* C12: a file that cannot be written does not abort the walk: the step
\* that fails leaves the walk running with the rest of the directory and
\* of the tree still to come, and a run that returns success has added
\* every eligible entry but the files whose write failed.
C12_FileFailureIsNotFatal ==
    /\ [][failedWrites' # failedWrites =>
            /\ zpc' = "z_walk"
            /\ curFiles' = Tail(curFiles)
            /\ todo' = todo
            /\ archive' = archive]_vars
    /\ [](zpc = "z_done" => EligibleEntries \subseteq (archive \cup failedWrites))

\* C12, its case: the run has returned success after a file failed, with a
\* file that came after it added.
C12_Witness ==
    /\ zpc = "z_done"
    /\ \E f \in failedWrites : \E k \in archive :
           IsFile(k) /\ k > f /\ Len(PathOf(k)) > Len(PathOf(f))

(***************************************************************************)
(* main of src/zip.py (lines 129-186).                                     *)
(***************************************************************************)
\* The lines that can be typed at "Proceed with creating zip? (y/N): ".
Responses ==
    { << >>, << "y" >>, << "Y" >>, << " ", "y", " " >>,
      << "y", "e", "s" >>, << "Y", "E", "S" >>, << " ", "Y", "e", "s" >>,
      << "n" >>, << "y", "e" >>, << "y", "y" >>, << "y", " ", "e", "s" >> }

\* A changed Proceeds: only a refusal typed out stops the run.
ProceedsUnlessNo(r) == Strip(Lower(r)) # << "n" >>

\* lines 169-170: input(...).lower().strip(), then the test for 'y'/'yes'.
Proceeds(r) == Strip(Lower(r)) \in { << "y" >>, << "y", "e", "s" >> }

\* A changed ExitCodeOf: the status is 0 whatever happened.
ExitCodeAlwaysZero(success) == 0

\* lines 181-186: sys.exit(0) on success, sys.exit(1) otherwise.
ExitCodeOf(success) == IF success THEN 0 ELSE 1

CliInit ==
    /\ cpc = "c_start"
    /\ verbose \in BOOLEAN
    /\ include_hidden \in BOOLEAN
    /\ answered = "no"
    /\ response = << >>
    /\ exit_code = -1
    /\ zpc = "idle"
    /\ tree \in Trees
    /\ tree0 = tree
    /\ exclude_hidden = TRUE
    /\ output \in { "outside", "new", "existing" }
    /\ output = "existing" => ExistingArchive \in tree
    /\ todo = << >>
    /\ curDirs = << >>
    /\ curFiles = << >>
    /\ archive = {}
    /\ files_added = 0
    /\ folders_added = 0
    /\ files_skipped = 0
    /\ failedWrites = {}
    /\ ScraperIdle
    /\ ExclIdle
    /\ ParseIdle

\* lines 146-172: the preview counts are printed; without -v the prompt is
\* shown: a line that is not y/yes ends the run with status 0, and input()
\* at end of file raises EOFError, which nothing catches (status 1).
CliConfirm ==
    /\ cpc = "c_start"
    /\ IF verbose
       THEN /\ cpc' = "c_call"
            /\ UNCHANGED << answered, response, exit_code >>
       ELSE \/ \E r \in Responses :
                 /\ response' = r
                 /\ answered' = "line"
                 /\ IF Proceeds(r)
                    THEN cpc' = "c_call" /\ UNCHANGED exit_code
                    ELSE cpc' = "c_exited" /\ exit_code' = 0
            \/ /\ answered' = "eof"
               /\ cpc' = "c_exited"
               /\ exit_code' = 1
               /\ UNCHANGED response
    /\ UNCHANGED << verbose, include_hidden >>
    /\ UNCHANGED << mapsVars, zipVars, exclVars, parseVars >>

\* lines 175-179: create_directory_zip is called.
CliCall ==
    /\ cpc = "c_call"
    /\ cpc' = "c_running"
    /\ zpc' = "z_open"
    /\ exclude_hidden' = ~include_hidden
    /\ UNCHANGED << tree, output, todo, curDirs, curFiles, archive,
                    files_added, folders_added, files_skipped, tree0,
                    failedWrites >>
    /\ UNCHANGED << verbose, include_hidden, answered, response, exit_code >>
    /\ UNCHANGED << mapsVars, exclVars, parseVars >>

\* lines 181-186: the exit after create_directory_zip has returned.
CliExit ==
    /\ cpc = "c_running"
    /\ zpc \in { "z_done", "z_failed" }
    /\ cpc' = "c_exited"
    /\ exit_code' = ExitCodeOf(zpc = "z_done")
    /\ UNCHANGED << verbose, include_hidden, answered, response >>
    /\ UNCHANGED << mapsVars, zipVars, exclVars, parseVars >>

CliNext ==
    \/ CliConfirm
    \/ CliCall
    \/ OpenArchive
    \/ WalkNext
    \/ ProcessDir
    \/ ProcessFile
    \/ CliExit

\* The archive builder run from its command line.
CliSpec == CliInit /\ [][CliNext]_vars

\* The user answered the prompt with something else than y or yes.
Declined ==
    answered = "line" /\ Strip(Lower(response)) \notin { << "y" >>, << "y", "e", "s" >> }

\* C13: the process exits with 0 when the archive was built, with 0 and no
\* archive when the user declined at the prompt, and with 1 when the
\* archive could not be created; with -v nothing is asked and the archive
\* is built.
C13_ExitCodes ==
    cpc = "c_exited" =>
        /\ zpc = "z_done" => exit_code = 0
        /\ Declined => (exit_code = 0 /\ zpc = "idle" /\ tree = tree0 /\ archive = {})
        /\ zpc = "z_failed" => exit_code = 1
        /\ verbose => (answered = "no" /\ zpc \in { "z_done", "z_failed" })
        /\ (~verbose /\ zpc # "idle") => (answered = "line" /\ ~Declined)

\* C13, its case: the prompt was answered " Yes", the archive could not be
\* created, and the process has exited.
C13_Witness ==
    /\ cpc = "c_exited"
    /\ ~verbose
    /\ response = << " ", "Y", "e", "s" >>
    /\ zpc = "z_failed"
    /\ exit_code = 1

(***************************************************************************)
(* clean_phone_number (src/mapsexcel.py, lines 523-535).                   *)
(***************************************************************************)
\* The longest run of digits in a phone text of the input set.
MaxRun == 6

DigitChars == << "0", "1", "2", "3", "4", "5", "6", "7", "8", "9" >>

IsDigit(c) == \E k \in 1 .. Len(DigitChars) : DigitChars[k] = c

\* A run of n digits.
DigitRun(n) == [ k \in 1 .. n |-> DigitChars[(k % 10) + 1] ]

\* "+1 (555) 123-4567" and "n/a"
Ph_formatted ==
    << "+", "1", " ", "(", "5", "5", "5", ")", " ", "1", "2", "3", "-",
       "4", "5", "6", "7" >>

Ph_na == << "n", "/", "a" >>

Ph_nan == << "n", "a", "n" >>

\* The texts the phone column can hold: the three above and every text
\* made of two digit runs with something before, between and after them.
PhoneInputs ==
    { Ph_formatted, Ph_na, Ph_nan } \cup
    { pre \o DigitRun(n) \o mid \o DigitRun(m) \o post :
        pre \in { << >>, << "+" >>, << " ", "+" >>, << "(" >>, << "x" >> },
        n \in 0 .. MaxRun,
        mid \in { << >>, << "-" >>, << "+" >>, << ")", " " >> },
        m \in 0 .. MaxRun,
        post \in { << >>, << " " >>, << "+" >> } }

\* the character class [^\d+] of line 529: what re.sub leaves in place
KeptByPattern(c) == IsDigit(c) \/ c = "+"

\* lines 525-535
clean_phone_number(p) ==
    IF p = << >> \/ p = Ph_nan THEN << >>
    ELSE LET cleaned == SelectSeq(p, KeptByPattern)
         IN  IF Len(cleaned) >= 10 THEN cleaned ELSE p

PhoneInit ==
    /\ phone \in PhoneInputs
    /\ phone_out = << >>
    /\ phone_done = FALSE
    /\ PanelIdle
    /\ ScraperIdle
    /\ ZipIdle
    /\ ExclIdle
    /\ CliIdle

\* df['phone'].apply(self.clean_phone_number) (line 503), one cell.
CallCleanPhoneNumber ==
    /\ ~phone_done
    /\ phone_done' = TRUE
    /\ phone_out' = clean_phone_number(phone)
    /\ UNCHANGED phone
    /\ UNCHANGED << mapsVars, zipVars, exclVars, cliVars, panelVars >>

\* clean_phone_number, called once on any text.
PhoneSpec == PhoneInit /\ [][CallCleanPhoneNumber]_vars

\* The digits of a text, and the text cleaned as the rule says: its digits,
\* after a plus sign when the first character that is a digit or a plus is
\* a plus.
DigitsOf(p) == SelectSeq(p, IsDigit)

CleanedByRule(p) ==
    LET kept == SelectSeq(p, KeptByPattern)
    IN  (IF kept # << >> /\ Head(kept) = "+" THEN << "+" >> ELSE << >>)
            \o DigitsOf(p)

\* C14: clean_phone_number returns the text stripped of everything but its
\* digits and a leading plus sign when at least 10 digits remain, and the
\* original text otherwise.
C14_CleanedByRule ==
    phone_done =>
        phone_out = IF Len(DigitsOf(phone)) >= 10
                    THEN CleanedByRule(phone)
                    ELSE phone

\* The entry's own name starts with ".".
HiddenName(k) == StartsWith(NameOf(k), << "." >>)

\* The file's name ends in ".zip" (in any case) or in a temporary suffix.
ZipOrTempName(k) ==
    \/ EndsWith(Lower(NameOf(k)), DotZip)
    \/ \E ext \in temp_extensions : EndsWith(NameOf(k), ext)

\* C15: when the run with --include-hidden has ended well, every file and
\* directory whose name starts with "." is in the archive unless it is a
\* zip or temporary file; without the flag none of them is.
C15_IncludeHiddenIncludes ==
    (cpc = "c_exited" /\ zpc = "z_done" /\ failedWrites = {}) =>
        \A k \in tree0 :
            HiddenName(k) =>
                IF include_hidden
                THEN (IsFile(k) /\ ZipOrTempName(k)) \/ k \in archive
                ELSE k \notin archive

(***************************************************************************)
(* extract_listing_details_from_panel (src/mapsexcel.py, lines 149-296),   *)
(* field by field.                                                         *)
(***************************************************************************)
\* The driver errors (other than a missing element) of one call.
MaxRaises == 1

\* What a detail panel can show: the heading, the category, the three info
\* buttons, a tel: link, the rating, the review count, the hours, the price
\* level and an e-mail address in its text.
Sources ==
    { "name", "category", "phone_button", "website_button", "address_button",
      "tel_link", "rating", "reviews", "hours", "price", "email" }

\* The driver calls of the function.
Lookups ==
    { "name", "category", "buttons", "tel_link", "rating", "reviews", "hours",
      "price", "email" }

\* find_element raises NoSuchElementException for a missing element, and
\* any driver call can raise a WebDriverException.
Found(src, lookup) == src \in panel /\ lookup \notin raising

PanelInit ==
    /\ ppc = "p_name"
    /\ panel \in SUBSET Sources
    /\ raising \in { r \in SUBSET Lookups : Cardinality(r) <= MaxRaises }
    /\ details = {}
    /\ PhoneIdle
    /\ ScraperIdle
    /\ ZipIdle
    /\ ExclIdle
    /\ CliIdle

PanelFrame ==
    /\ UNCHANGED << panel, raising >>
    /\ UNCHANGED << mapsVars, zipVars, exclVars, cliVars, phoneVars >>

\* lines 176-183: the name selectors, each in its own try.
ExtractName ==
    /\ ppc = "p_name"
    /\ details' = IF Found("name", "name") THEN details \cup { "name" } ELSE details
    /\ ppc' = "p_category"
    /\ PanelFrame

\* lines 186-192
ExtractCategory ==
    /\ ppc = "p_category"
    /\ details' = IF Found("category", "category")
                  THEN details \cup { "category" } ELSE details
    /\ ppc' = "p_buttons"
    /\ PanelFrame

\* lines 195-227: find_elements is called outside any inner try: when it
\* raises, the except of line 293 ends the function.  Each button is read
\* in its own try.
ExtractButtons ==
    /\ ppc = "p_buttons"
    /\ IF "buttons" \in raising
       THEN /\ ppc' = "p_return"
            /\ UNCHANGED details
       ELSE /\ ppc' = "p_tel"
            /\ details' = details
                 \cup (IF "phone_button" \in panel THEN { "phone" } ELSE {})
                 \cup (IF "website_button" \in panel THEN { "website" } ELSE {})
                 \cup (IF "address_button" \in panel THEN { "address" } ELSE {})
    /\ PanelFrame

\* lines 230-237: the tel: link, when no button gave a phone.
ExtractPhoneLink ==
    /\ ppc = "p_tel"
    /\ details' = IF "phone" \notin details /\ Found("tel_link", "tel_link")
                  THEN details \cup { "phone" } ELSE details
    /\ ppc' = "p_rating"
    /\ PanelFrame

\* lines 240-258: the rating and the review count share one try: when the
\* rating lookup raises, the except of line 257 is entered and the review
\* count is not looked up.
ExtractRatingAndReviews ==
    /\ ppc = "p_rating"
    /\ details' =
         IF ~Found("rating", "rating") THEN details
         ELSE details \cup { "rating" }
                \cup (IF Found("reviews", "reviews") THEN { "reviews_count" } ELSE {})
    /\ ppc' = "p_hours"
    /\ PanelFrame

\* lines 261-267
ExtractHours ==
    /\ ppc = "p_hours"
    /\ details' = IF Found("hours", "hours") THEN details \cup { "hours" } ELSE details
    /\ ppc' = "p_price"
    /\ PanelFrame

\* lines 270-278
ExtractPriceLevel ==
    /\ ppc = "p_price"
    /\ details' = IF Found("price", "price")
                  THEN details \cup { "price_level" } ELSE details
    /\ ppc' = "p_email"
    /\ PanelFrame

\* lines 281-289
ExtractEmail ==
    /\ ppc = "p_email"
    /\ details' = IF Found("email", "email") THEN details \cup { "email" } ELSE details
    /\ ppc' = "p_return"
    /\ PanelFrame

\* line 296: return details
PanelReturn ==
    /\ ppc = "p_return"
    /\ ppc' = "p_returned"
    /\ UNCHANGED details
    /\ PanelFrame

PanelNext ==
    \/ ExtractName
    \/ ExtractCategory
    \/ ExtractButtons
    \/ ExtractPhoneLink
    \/ ExtractRatingAndReviews
    \/ ExtractHours
    \/ ExtractPriceLevel
    \/ ExtractEmail
    \/ PanelReturn

\* The parser of one detail panel.
PanelSpec == PanelInit /\ [][PanelNext]_vars

\* The field's own source is there and its own lookup does not fail.
OwnSourcePresent(f) ==
    CASE f = "name" -> Found("name", "name")
      [] f = "category" -> Found("category", "category")
      [] f = "phone" -> \/ ("phone_button" \in panel /\ "buttons" \notin raising)
                        \/ Found("tel_link", "tel_link")
      [] f = "website" -> "website_button" \in panel /\ "buttons" \notin raising
      [] f = "address" -> "address_button" \in panel /\ "buttons" \notin raising
      [] f = "rating" -> Found("rating", "rating")
      [] f = "reviews_count" -> Found("reviews", "reviews")
      [] f = "hours" -> Found("hours", "hours")
      [] f = "price_level" -> Found("price", "price")
      [] f = "email" -> Found("email", "email")

\* C16: the field extractors are isolated: when the function has returned,
\* every field whose own source is present and whose own lookup did not
\* fail is filled in, whatever happened to the other fields.
C16_FieldsIsolated ==
    ppc = "p_returned" =>
        \A f \in { "name", "category", "phone", "website", "address", "rating",
                   "reviews_count", "hours", "price_level", "email" } :
            OwnSourcePresent(f) => f \in details

(***************************************************************************)
(* Properties of the extraction loop.                                      *)
(***************************************************************************)
\* C17 as stated: the failure-triggered scroll comes as soon as 3 listing
\* visits in a row have failed.
C17_ScrollAtThirdFailure ==
    (consecutive_failures >= 3) <=> (pc = "x_failscroll")

\* C17 as amended: the failure-triggered scroll comes when the counter of
\* consecutive failures exceeds 3, that is with the fourth failed visit in
\* a row, and the counter never goes beyond 4.
C17_ScrollAtFourthFailure ==
    /\ (consecutive_failures > FailureThreshold) <=> (pc = "x_failscroll")
    /\ consecutive_failures <= FailureThreshold + 1

\* C17, its case: four visits in a row have failed without an interrupt and
\* the scroll is about to run.
C17_Witness ==
    /\ pc = "x_failscroll"
    /\ consecutive_failures = 4
    /\ signals = 0
    /\ results = << >>

\* C18: every listing index is visited at most once during a run: the
\* index of a visit that starts has not been visited before.
C18_VisitedAtMostOnce ==
    [][(pc' = "x_click" /\ pc # "x_click") => i' \notin visited]_vars

\* C19: whenever a scroll, at the end of a pass or after too many failures,
\* has increased the number of loaded listings, both the counter of
\* consecutive failures and the no-growth counter are zero when the visits
\* resume.
C19_CountersResetOnGrowth ==
    [][(pc \in { "x_failscroll", "x_endscroll" } /\ pc' \in { "x_for", "x_while" }
            /\ loaded' > loaded)
        => (consecutive_failures' = 0 /\ no_new_results_count' = 0)]_vars

\* C20: once the stop flag is set, the loop starts no new listing visit and
\* no scroll.
C20_NoVisitNoScrollAfterStop ==
    [][stop_extraction =>
          (pc' \in { "x_click", "x_failscroll", "x_endscroll" } => pc' = pc)]_vars

\* The call of extract_all_results is under way or about to return: its
\* locals exist.
InExtractCall == pc \in ExtractPcs \cup { "x_return" }

\* C21: during one call of extract_all_results the result list only grows
\* by appends, its length is the size of processed_indices, and no listing
\* index has contributed more than one record.
C21_ResultsMatchProcessed ==
    /\ [](InExtractCall =>
            /\ Len(results) = Cardinality(processed_indices)
            /\ RecordedIndices = processed_indices
            /\ \A k, l \in 1 .. Len(results) :
                   results[k].idx = results[l].idx => k = l)
    /\ [][(InExtractCall /\ results' # results) =>
            (Len(results') = Len(results) + 1
                /\ SubSeq(results', 1, Len(results)) = results)]_vars

\* C21, its case: the loop is in a later pass with two records, taken from
\* the listings 0 and 2, the last visit of listing 1 having failed.
C21_Witness ==
    /\ pc = "x_for"
    /\ processed_indices = { 0, 2 }
    /\ Len(results) = 2
    /\ 1 \in visited
    /\ consecutive_failures >= 1
    /\ signals = 0

=============================================================================
